---- MODULE Spec2Model ----
(***************************************************************************)
(* Model of mainSimulations/make_config_acag30.py: a LAMMPS data file is   *)
(* read as a list of lines, the declared atom count is found, the Atoms    *)
(* block is located, the chain length is inferred from the molecule ids,   *)
(* the type column of every atom record is rewritten with the (ACAG)       *)
(* pattern, and the result is written out.                                 *)
(*                                                                         *)
(* A line is a record [toks, sp]: toks is what str.split() returns for the *)
(* line, sp tells how the tokens are laid out in the text ("single" = the  *)
(* tokens joined by one space and ended by "\n", "wide" = any other        *)
(* layout).  Tokens are strings; int() and str() are modelled by ToInt and *)
(* Str over a table of the integer literals that occur.                    *)
(* List indices are the 0-based indices of the Python code; At(doc, i)     *)
(* reads lines[i].                                                         *)
(***************************************************************************)
EXTENDS Integers, Sequences, FiniteSets, TLC

\* ---------------------------------------------------------------- bounds
MaxBlk == 3      \* lines of the document that follow its preamble

\* ------------------------------------------------------- program constants
base_pattern == <<1, 2, 1, 3>>
pattern_len == Len(base_pattern)
MinFields == 6
MinMolFields == 3
HeaderSkip == 2

\* ------------------------------------------------------------ int / str
IntLits == {"-1", "0", "1", "2", "3", "4"}

IsInt(t) == t \in IntLits

ToInt(t) ==
  CASE t = "-1" -> -1
    [] t = "0" -> 0
    [] t = "1" -> 1
    [] t = "2" -> 2
    [] t = "3" -> 3
    [] t = "4" -> 4

Str(n) ==
  CASE n = -1 -> "-1"
    [] n = 0 -> "0"
    [] n = 1 -> "1"
    [] n = 2 -> "2"
    [] n = 3 -> "3"
    [] n = 4 -> "4"

\* Python's % and // (floored), for a non-zero divisor of either sign.
PyMod(a, b) == IF b > 0 THEN a % b ELSE -((-a) % (-b))

PyFloorDiv(a, b) == IF b > 0 THEN a \div b ELSE (-a) \div (-b)

\* ----------------------------------------------------------------- lines
Line(toks, sp) == [toks |-> toks, sp |-> sp]

At(doc, i) == doc[i + 1]

StartsWithHash(t) == t \in {"#", "#x"}

StartsWithAtoms(t) == t \in {"Atoms"}

\* not stripped or stripped.startswith("#")
IsBlankOrComment(line) ==
  \/ Len(line.toks) = 0
  \/ StartsWithHash(line.toks[1])

\* line.strip().startswith("Atoms")
IsAtomsHeader(line) ==
  /\ Len(line.toks) > 0
  /\ StartsWithAtoms(line.toks[1])

\* len(parts) == 2 and parts[1] == "atoms"
IsNumAtomsLine(line) ==
  /\ Len(line.toks) = 2
  /\ line.toks[2] = "atoms"

\* ------------------------------------------------------------ the inputs
Blank == Line(<<>>, "wide")
NumAtomsLine(n) == Line(<<n, "atoms">>, "wide")
AtomsHeader == Line(<<"Atoms">>, "wide")
Comment == Line(<<"#", "x">>, "wide")
Atom6(id, mol, type, sp) == Line(<<id, mol, type, "0.0", "0.0", "0.0">>, sp)

\* What a document starts with: the header, the "Atoms" line and the line
\* after it, well formed or not.
Preambles ==
  { <<NumAtomsLine("2"), Blank, AtomsHeader, Blank>>,
    <<NumAtomsLine("3"), Blank, AtomsHeader, Blank>>,
    <<NumAtomsLine("2"), AtomsHeader>>,
    <<NumAtomsLine("2"), AtomsHeader, AtomsHeader>>,
    <<AtomsHeader, NumAtomsLine("2")>>,
    <<NumAtomsLine("-1"), AtomsHeader, Blank>>,
    <<NumAtomsLine("x"), AtomsHeader, Blank>>,
    <<AtomsHeader, Blank>>,
    <<NumAtomsLine("3"), Blank>>,
    <<>> }

\* The lines that follow the preamble.
BlkAlphabet ==
  { Blank,
    Comment,
    Atom6("1", "1", "4", "wide"),
    Atom6("2", "1", "1", "single"),
    Atom6("3", "2", "2", "wide"),
    Atom6("2", "0", "4", "wide"),
    Atom6("4", "-1", "4", "wide"),
    Atom6("x", "1", "4", "wide"),
    Line(<<"1", "2">>, "wide"),
    Line(<<"2", "1", "4", "0.0">>, "wide"),
    Line(<<"3", "x", "4">>, "wide") }

SeqsUpTo(S, n) == UNION {[1..k -> S] : k \in 0..n}

Blks == SeqsUpTo(BlkAlphabet, MaxBlk)

\* ------------------------------------------------------- parse_num_atoms
RECURSIVE ScanNumAtoms(_, _)
ScanNumAtoms(doc, i) ==
  IF i >= Len(doc) THEN [err |-> "MissingHeaderFact", natoms |-> 0]
  ELSE IF IsNumAtomsLine(At(doc, i))
       THEN IF IsInt(At(doc, i).toks[1])
            THEN [err |-> "none", natoms |-> ToInt(At(doc, i).toks[1])]
            ELSE [err |-> "BadInteger", natoms |-> 0]
       ELSE ScanNumAtoms(doc, i + 1)

parse_num_atoms(doc) == ScanNumAtoms(doc, 0)

\* ------------------------------------------------------ find_atoms_block
\* The index of the first line that starts with "Atoms", or -1 (None).
RECURSIVE ScanAtomsHeader(_, _)
ScanAtomsHeader(doc, i) ==
  IF i >= Len(doc) THEN -1
  ELSE IF IsAtomsHeader(At(doc, i)) THEN i
       ELSE ScanAtomsHeader(doc, i + 1)

find_atoms_block_eof(doc, n) ==
  LET h == ScanAtomsHeader(doc, 0)
      s == h + HeaderSkip
      e == s + n
  IN  IF h = -1 THEN [err |-> "MissingSection", atoms_start |-> 0, atoms_end |-> 0]
      ELSE IF e >= Len(doc) THEN [err |-> "TruncatedDocument", atoms_start |-> 0, atoms_end |-> 0]
      ELSE [err |-> "none", atoms_start |-> s, atoms_end |-> e]

find_atoms_block(doc, n) ==
  LET h == ScanAtomsHeader(doc, 0)
      s == h + HeaderSkip
      e == s + n
  IN  IF h = -1 THEN [err |-> "MissingSection", atoms_start |-> 0, atoms_end |-> 0]
      ELSE IF e > Len(doc) THEN [err |-> "TruncatedDocument", atoms_start |-> 0, atoms_end |-> 0]
      ELSE [err |-> "none", atoms_start |-> s, atoms_end |-> e]

\* ------------------------------------------- infer_chain_length_and_count
\* The loop of lines 43-50: mol_ids so far is acc; "bad" is set when int()
\* raises on a molecule id, which ends the loop.
RECURSIVE CollectMolIds(_, _, _, _)
CollectMolIds(doc, i, e, acc) ==
  IF i >= e THEN [bad |-> FALSE, ids |-> acc]
  ELSE LET line == At(doc, i)
       IN  IF IsBlankOrComment(line) THEN CollectMolIds(doc, i + 1, e, acc)
           ELSE IF Len(line.toks) < MinMolFields THEN CollectMolIds(doc, i + 1, e, acc)
           ELSE IF ~IsInt(line.toks[2]) THEN [bad |-> TRUE, ids |-> acc]
           ELSE CollectMolIds(doc, i + 1, e, Append(acc, ToInt(line.toks[2])))

SeqLast(s) == s[Len(s)]

SeqMax(s) == CHOOSE m \in {s[k] : k \in 1..Len(s)} : \A k \in 1..Len(s) : s[k] <= m

infer_chain_length_and_count(doc, s, e) ==
  LET n_at == e - s
      c == CollectMolIds(doc, s, e, <<>>)
      fail(x) == [err |-> x, chain_len |-> 0, n_chains |-> 0]
  IN  IF c.bad THEN fail("BadInteger")
      ELSE IF c.ids = <<>> THEN fail("EmptyBlock")
      ELSE LET nc == SeqMax(c.ids)
           IN  IF nc = 0 THEN fail("ZeroDivisionError")
               ELSE IF PyMod(n_at, nc) # 0 THEN fail("IndivisibleChainCount")
               ELSE [err |-> "none", chain_len |-> PyFloorDiv(n_at, nc), n_chains |-> nc]

\* -------------------------------------------------------- remap_to_acag30
NewType_no_offset(atom_id, clen) ==
  LET idx_in_chain == PyMod(atom_id, clen)
  IN  base_pattern[PyMod(idx_in_chain, pattern_len) + 1]

NewType(atom_id, clen) ==
  LET idx_in_chain == PyMod(atom_id - 1, clen)
  IN  base_pattern[PyMod(idx_in_chain, pattern_len) + 1]

RemapLine_mol_column(line, clen) ==
  Line([line.toks EXCEPT ![2] = Str(NewType(ToInt(line.toks[1]), clen))], "single")

RemapLine_three_fields(line, clen) ==
  Line(<<line.toks[1], line.toks[2], Str(NewType(ToInt(line.toks[1]), clen))>>, "single")

\* parts[2] = str(new_type); " ".join(parts) + "\n"
RemapLine(line, clen) ==
  Line([line.toks EXCEPT ![3] = Str(NewType(ToInt(line.toks[1]), clen))], "single")

RECURSIVE RemapFrom_strip_skipped(_, _, _, _, _)
RemapFrom_strip_skipped(doc, i, e, clen, acc) ==
  IF i >= e THEN [err |-> "none", new_lines |-> acc]
  ELSE LET line == At(doc, i)
       IN  IF IsBlankOrComment(line)
           THEN RemapFrom_strip_skipped(doc, i + 1, e, clen, [acc EXCEPT ![i + 1] = Line(line.toks, "single")])
           ELSE IF Len(line.toks) < MinFields THEN [err |-> "MalformedRecord", new_lines |-> <<>>]
           ELSE IF ~IsInt(line.toks[1]) THEN [err |-> "BadInteger", new_lines |-> <<>>]
           ELSE RemapFrom_strip_skipped(doc, i + 1, e, clen, [acc EXCEPT ![i + 1] = RemapLine(line, clen)])

RECURSIVE RemapFrom_three_fields(_, _, _, _, _)
RemapFrom_three_fields(doc, i, e, clen, acc) ==
  IF i >= e THEN [err |-> "none", new_lines |-> acc]
  ELSE LET line == At(doc, i)
       IN  IF IsBlankOrComment(line) THEN RemapFrom_three_fields(doc, i + 1, e, clen, acc)
           ELSE IF Len(line.toks) < MinMolFields THEN [err |-> "MalformedRecord", new_lines |-> <<>>]
           ELSE IF ~IsInt(line.toks[1]) THEN [err |-> "BadInteger", new_lines |-> <<>>]
           ELSE RemapFrom_three_fields(doc, i + 1, e, clen, [acc EXCEPT ![i + 1] = RemapLine(line, clen)])

\* The loop of lines 65-79 from index i on, new_lines so far is acc.
RECURSIVE RemapFrom(_, _, _, _, _)
RemapFrom(doc, i, e, clen, acc) ==
  IF i >= e THEN [err |-> "none", new_lines |-> acc]
  ELSE LET line == At(doc, i)
       IN  IF IsBlankOrComment(line) THEN RemapFrom(doc, i + 1, e, clen, acc)
           ELSE IF Len(line.toks) < MinFields THEN [err |-> "MalformedRecord", new_lines |-> <<>>]
           ELSE IF ~IsInt(line.toks[1]) THEN [err |-> "BadInteger", new_lines |-> <<>>]
           ELSE RemapFrom(doc, i + 1, e, clen, [acc EXCEPT ![i + 1] = RemapLine(line, clen)])

remap_to_acag30(doc, s, e, clen) == RemapFrom(doc, s, e, clen, doc)

\* ------------------------------------------------------------------ main
VARIABLES lines, pc, err, natoms, atoms_start, atoms_end, chain_len, n_chains,
          new_lines, written, outfile, stdout, calls

vars == <<lines, pc, err, natoms, atoms_start, atoms_end, chain_len, n_chains,
          new_lines, written, outfile, stdout, calls>>

Init ==
  /\ \E pre \in Preambles, blk \in Blks : lines = pre \o blk
  /\ pc = "parse_num_atoms"
  /\ err = "none"
  /\ natoms = 0
  /\ atoms_start = 0
  /\ atoms_end = 0
  /\ chain_len = 0
  /\ n_chains = 0
  /\ new_lines = <<>>
  /\ written = FALSE
  /\ outfile = <<>>
  /\ stdout = <<>>
  /\ calls = <<>>

\* An uncaught exception ends the process; otherwise control goes on.
Goto(e, next) == IF e = "none" THEN next ELSE "aborted"

\* line 96
ParseNumAtoms ==
  /\ pc = "parse_num_atoms"
  /\ LET r == parse_num_atoms(lines)
     IN  /\ natoms' = r.natoms
         /\ err' = r.err
         /\ pc' = Goto(r.err, "find_atoms_block")
  /\ calls' = Append(calls, "parse_num_atoms")
  /\ UNCHANGED <<lines, atoms_start, atoms_end, chain_len, n_chains, new_lines, written, outfile, stdout>>

\* line 97
FindAtomsBlock ==
  /\ pc = "find_atoms_block"
  /\ LET r == find_atoms_block(lines, natoms)
     IN  /\ atoms_start' = r.atoms_start
         /\ atoms_end' = r.atoms_end
         /\ err' = r.err
         /\ pc' = Goto(r.err, "infer_chain_length_and_count")
  /\ calls' = Append(calls, "find_atoms_block")
  /\ UNCHANGED <<lines, natoms, chain_len, n_chains, new_lines, written, outfile, stdout>>

InferChain_keeps_going ==
  /\ pc = "infer_chain_length_and_count"
  /\ LET r == infer_chain_length_and_count(lines, atoms_start, atoms_end)
     IN  /\ chain_len' = r.chain_len
         /\ n_chains' = r.n_chains
         /\ err' = r.err
         /\ pc' = "print_detected"
  /\ calls' = Append(calls, "infer_chain_length_and_count")
  /\ UNCHANGED <<lines, natoms, atoms_start, atoms_end, new_lines, written, outfile, stdout>>

\* lines 98-100
InferChain ==
  /\ pc = "infer_chain_length_and_count"
  /\ LET r == infer_chain_length_and_count(lines, atoms_start, atoms_end)
     IN  /\ chain_len' = r.chain_len
         /\ n_chains' = r.n_chains
         /\ err' = r.err
         /\ pc' = Goto(r.err, "print_detected")
  /\ calls' = Append(calls, "infer_chain_length_and_count")
  /\ UNCHANGED <<lines, natoms, atoms_start, atoms_end, new_lines, written, outfile, stdout>>

\* lines 101-104
PrintDetected ==
  /\ pc = "print_detected"
  /\ stdout' = Append(stdout, "Detected")
  /\ pc' = "remap_to_acag30"
  /\ UNCHANGED <<lines, err, natoms, atoms_start, atoms_end, chain_len, n_chains, new_lines, written, outfile, calls>>

Remap_streams_output ==
  /\ pc = "remap_to_acag30"
  /\ LET r == remap_to_acag30(lines, atoms_start, atoms_end, chain_len)
     IN  /\ new_lines' = r.new_lines
         /\ err' = r.err
         /\ pc' = Goto(r.err, "write_text")
         /\ outfile' = r.new_lines
  /\ written' = TRUE
  /\ calls' = Append(calls, "remap_to_acag30")
  /\ UNCHANGED <<lines, natoms, atoms_start, atoms_end, chain_len, n_chains, stdout>>

\* line 105
Remap ==
  /\ pc = "remap_to_acag30"
  /\ LET r == remap_to_acag30(lines, atoms_start, atoms_end, chain_len)
     IN  /\ new_lines' = r.new_lines
         /\ err' = r.err
         /\ pc' = Goto(r.err, "write_text")
  /\ calls' = Append(calls, "remap_to_acag30")
  /\ UNCHANGED <<lines, natoms, atoms_start, atoms_end, chain_len, n_chains, written, outfile, stdout>>

\* lines 106-107
WriteOutput ==
  /\ pc = "write_text"
  /\ written' = TRUE
  /\ outfile' = new_lines
  /\ stdout' = Append(stdout, "Wrote")
  /\ pc' = "done"
  /\ calls' = Append(calls, "write_text")
  /\ UNCHANGED <<lines, err, natoms, atoms_start, atoms_end, chain_len, n_chains, new_lines>>

Next ==
  \/ ParseNumAtoms
  \/ FindAtomsBlock
  \/ InferChain
  \/ PrintDetected
  \/ Remap
  \/ WriteOutput

Spec == Init /\ [][Next]_vars

Finished == pc \in {"done", "aborted"}

Succeeded == pc = "done"

TypeOK ==
  /\ pc \in {"parse_num_atoms", "find_atoms_block", "infer_chain_length_and_count",
             "print_detected", "remap_to_acag30", "write_text", "done", "aborted"}
  /\ written \in BOOLEAN

\* ============================================================ properties
Pipeline == <<"parse_num_atoms", "find_atoms_block", "infer_chain_length_and_count",
              "remap_to_acag30", "write_text">>

IsPrefix(s, t) == Len(s) <= Len(t) /\ s = SubSeq(t, 1, Len(s))

\* The three validation stages have returned normally.
BlockLocated == Len(calls) >= 3 \/ (Len(calls) = 2 /\ pc = "infer_chain_length_and_count")

InferenceDone == Len(calls) >= 3

InferenceOk == Len(calls) >= 4 \/ (Len(calls) = 3 /\ pc # "aborted")

Block == atoms_start .. (atoms_end - 1)

\* Non-blank, non-comment block lines, by number of fields.
IsDataLine(l) == Len(l.toks) > 0 /\ l.toks[1] \notin {"#", "#x"}

IsAtomRecord(l) == IsDataLine(l) /\ Len(l.toks) >= 6

IsShortLine(l) == IsDataLine(l) /\ Len(l.toks) < 6

\* ((id - 1) mod chain_len) mod 4 looked up in [1, 2, 1, 3], mod as in Python.
Acag(id, clen) == <<1, 2, 1, 3>>[PyMod(PyMod(id - 1, clen), 4) + 1]

\* C1: in a run that succeeds, the type written for every atom record of the
\* block is pattern[((atom_id - 1) mod chain_len) mod 4] with pattern
\* [1,2,1,3]; with chain_len 40 the ids 41, 43, 44 get the types 1, 1, 3.
C1_TypeFollowsPattern ==
  /\ Succeeded =>
       \A i \in Block :
         IsAtomRecord(At(lines, i)) =>
           At(outfile, i).toks[3] = Str(Acag(ToInt(At(lines, i).toks[1]), chain_len))
  /\ NewType(41, 40) = 1
  /\ NewType(43, 40) = 1
  /\ NewType(44, 40) = 3

C1_Witness ==
  /\ Succeeded
  /\ \E i \in Block : IsAtomRecord(At(lines, i)) /\ At(outfile, i).toks[3] = "2"
  /\ \E i \in Block : IsAtomRecord(At(lines, i)) /\ At(outfile, i).toks[3] = "1"
                        /\ At(lines, i).toks[3] # "1"

\* C2: the output file is written only after the header scan, the block
\* locator, the chain inference and the remapping have all succeeded, and a
\* run that aborts has written nothing.
C2_WriteOnlyAfterValidation ==
  /\ written => (pc = "done" /\ err = "none" /\ calls = Pipeline)
  /\ ~written => outfile = <<>>
  /\ (pc = "aborted" \/ err # "none") => ~written

C2_Witness == pc = "aborted" /\ err = "MalformedRecord" /\ Len(calls) = 4 /\ ~written

\* C3: for every atom record of the block the output line has as many fields
\* as the input line and agrees with it on every field but field index 2.
C3_OnlyTypeFieldChanges ==
  Succeeded =>
    \A i \in Block :
      IsAtomRecord(At(lines, i)) =>
        /\ Len(At(outfile, i).toks) = Len(At(lines, i).toks)
        /\ \A k \in 1..Len(At(lines, i).toks) :
             k # 3 => At(outfile, i).toks[k] = At(lines, i).toks[k]

C3_Witness ==
  /\ Succeeded
  /\ \E i \in Block : IsAtomRecord(At(lines, i))
                        /\ At(outfile, i).toks[3] # At(lines, i).toks[3]

\* C4: the output has as many lines as the input, and every line outside the
\* block, and every blank or comment line inside it, is the input line.
C4_FrameOfRemap ==
  Succeeded =>
    /\ Len(outfile) = Len(lines)
    /\ \A i \in 0..(Len(lines) - 1) :
         (i \notin Block \/ ~IsDataLine(At(lines, i))) => At(outfile, i) = At(lines, i)

C4_Witness ==
  /\ Succeeded
  /\ outfile # lines
  /\ \E i \in Block : ~IsDataLine(At(lines, i))
  /\ Len(lines) > atoms_end

\* C5: on the output of a successful run the header scan, the block locator
\* and the chain inference succeed and give the chain_len and n_chains of the
\* input.
C5_ReparseAgrees ==
  Succeeded =>
    LET p == parse_num_atoms(outfile)
        f == find_atoms_block(outfile, p.natoms)
        c == infer_chain_length_and_count(outfile, f.atoms_start, f.atoms_end)
    IN  /\ p.err = "none"
        /\ f.err = "none"
        /\ c.err = "none"
        /\ c.chain_len = chain_len
        /\ c.n_chains = n_chains

C5_Witness == Succeeded /\ outfile # lines /\ n_chains > 1

\* The molecule ids the block shows: the second field of its data lines with
\* at least minf fields.
MolIdsOf(minf) ==
  {ToInt(At(lines, i).toks[2]) :
     i \in {j \in Block : /\ IsDataLine(At(lines, j))
                          /\ Len(At(lines, j).toks) >= minf
                          /\ IsInt(At(lines, j).toks[2])}}

AllMolIdsParse ==
  \A i \in Block :
    (IsDataLine(At(lines, i)) /\ Len(At(lines, i).toks) >= 3) => IsInt(At(lines, i).toks[2])

IsMaxOf(m, S) == m \in S /\ \A x \in S : x <= m

NotDivisibleBy(n, m) == \A k \in -n..n : k * m # n

\* C6: whenever the atom count of the block is not divisible by the largest
\* molecule id seen in it, the run aborts with IndivisibleChainCount and no
\* output file is created.
C6_IndivisibleAborts ==
  (/\ InferenceDone
   /\ AllMolIdsParse
   /\ \E m \in MolIdsOf(3) : IsMaxOf(m, MolIdsOf(3)) /\ NotDivisibleBy(atoms_end - atoms_start, m))
  => (pc = "aborted" /\ err = "IndivisibleChainCount" /\ ~written)

\* The index of the first line that starts with "Atoms".
IsFirstAtomsHeader(h) ==
  /\ h \in 0..(Len(lines) - 1)
  /\ Len(At(lines, h).toks) > 0
  /\ At(lines, h).toks[1] = "Atoms"
  /\ \A j \in 0..(h - 1) : Len(At(lines, j).toks) = 0 \/ At(lines, j).toks[1] # "Atoms"

\* C7: once the locator has run on a document whose first "Atoms" line is at
\* index h, the run has aborted with TruncatedDocument if h + 2 + natoms
\* exceeds the number of lines, and otherwise the block is
\* [h + 2, h + 2 + natoms).
C7_LocatorBounds ==
  \A h \in 0..(Len(lines) - 1) :
    (Len(calls) >= 2 /\ IsFirstAtomsHeader(h)) =>
      IF h + 2 + natoms > Len(lines)
      THEN pc = "aborted" /\ err = "TruncatedDocument" /\ Len(calls) = 2
      ELSE /\ atoms_start = h + 2
           /\ atoms_end = h + 2 + natoms
           /\ err \notin {"MissingSection", "TruncatedDocument"}
           /\ (Len(calls) = 2 => pc = "infer_chain_length_and_count")

C7_Witness ==
  /\ pc = "aborted"
  /\ err = "TruncatedDocument"
  /\ \E h \in 0..(Len(lines) - 1) : IsFirstAtomsHeader(h) /\ h + 2 < Len(lines)

HasShortLine == \E i \in Block : IsShortLine(At(lines, i))

\* Every data line of the block before the first short one has an integer
\* atom id.
IdsParseUpToShortLine ==
  \E i \in Block :
    /\ IsShortLine(At(lines, i))
    /\ \A j \in atoms_start..(i - 1) :
         IsDataLine(At(lines, j)) => (Len(At(lines, j).toks) >= 6 /\ IsInt(At(lines, j).toks[1]))

\* C8 as stated: whenever a non-blank, non-comment line of the block has
\* fewer than 6 fields, the run aborts with MalformedRecord and nothing is
\* written.
C8_ShortLineIsMalformedRecord ==
  (Finished /\ BlockLocated /\ HasShortLine) =>
    (pc = "aborted" /\ err = "MalformedRecord" /\ ~written)

\* C8 amended: whenever the first three stages have succeeded and a non-blank,
\* non-comment line of the block has fewer than 6 fields, the run aborts in
\* the remapper and nothing is written; the error is MalformedRecord, unless
\* an earlier record of the block has an atom id that is no integer literal,
\* and then it is the conversion error of that record.
C8_ShortLineAbortsRemap ==
  (Finished /\ InferenceOk /\ HasShortLine) =>
    /\ pc = "aborted"
    /\ ~written
    /\ Len(calls) = 4
    /\ err = (IF IdsParseUpToShortLine THEN "MalformedRecord" ELSE "BadInteger")

C8_Witness ==
  /\ pc = "aborted"
  /\ err = "MalformedRecord"
  /\ \E i \in Block : IsShortLine(At(lines, i)) /\ Len(At(lines, i).toks) = 4
  /\ \E i \in Block : IsAtomRecord(At(lines, i))

\* The shape of a successful inference, for molecule ids read from the data
\* lines with at least minf fields.
ChainShape(minf) ==
  /\ InferenceOk =>
       /\ IsMaxOf(n_chains, MolIdsOf(minf))
       /\ chain_len * n_chains = atoms_end - atoms_start
       /\ \A q \in -(atoms_end - atoms_start)..(atoms_end - atoms_start) :
            q * n_chains = atoms_end - atoms_start => chain_len = q
  /\ (InferenceDone /\ MolIdsOf(3) = {} /\ AllMolIdsParse) =>
       (pc = "aborted" /\ err = "EmptyBlock")

\* C9 as stated: when chain inference succeeds, n_chains is the largest second
\* field over the non-blank, non-comment lines of the block, chain_len is the
\* block size divided by n_chains, and their product is the block size;
\* inference fails with EmptyBlock when the block yields no molecule id.
C9_ChainShapeAllRecords == ChainShape(2)

\* C9 amended: as stated, but n_chains is the largest second field over the
\* non-blank, non-comment lines of the block that have at least 3 fields.
C9_ChainShapeThreeFields == ChainShape(3)

C9_Witness ==
  /\ InferenceOk
  /\ \E i \in Block : /\ IsDataLine(At(lines, i))
                        /\ Len(At(lines, i).toks) = 2
                        /\ IsInt(At(lines, i).toks[2])
                        /\ ToInt(At(lines, i).toks[2]) > n_chains

\* The error of the earliest stage that fails on the input, "none" if none.
EarliestError ==
  LET p == parse_num_atoms(lines)
      f == find_atoms_block(lines, p.natoms)
      c == infer_chain_length_and_count(lines, f.atoms_start, f.atoms_end)
      r == remap_to_acag30(lines, f.atoms_start, f.atoms_end, c.chain_len)
  IN  IF p.err # "none" THEN p.err
      ELSE IF f.err # "none" THEN f.err
      ELSE IF c.err # "none" THEN c.err
      ELSE r.err

\* C10: the stages run in the order header scan, block locator, chain
\* inference, remapper; an aborting run reports the error of the earliest
\* failing stage and runs no later stage; the first summary line is printed
\* exactly when the first three stages have succeeded.
C10_StageOrder ==
  /\ IsPrefix(calls, Pipeline)
  /\ err # "none" => pc = "aborted"
  /\ pc = "aborted" => err # "none"
  /\ Finished => err = EarliestError
  /\ err = "MissingHeaderFact" => Len(calls) = 1
  /\ err \in {"MissingSection", "TruncatedDocument"} => Len(calls) = 2
  /\ err \in {"EmptyBlock", "IndivisibleChainCount"} => Len(calls) = 3
  /\ err = "MalformedRecord" => Len(calls) = 4
  /\ Len(calls) >= 4 => (Len(stdout) >= 1 /\ stdout[1] = "Detected")
  /\ Len(calls) <= 2 => stdout = <<>>
  /\ Len(calls) = 3 =>
       IF pc \in {"aborted", "print_detected"} THEN stdout = <<>> ELSE stdout = <<"Detected">>
  /\ Finished =>
       (("Detected" \in {stdout[k] : k \in 1..Len(stdout)})
          <=> (/\ parse_num_atoms(lines).err = "none"
               /\ find_atoms_block(lines, natoms).err = "none"
               /\ infer_chain_length_and_count(lines, atoms_start, atoms_end).err = "none"))

C10_Witness ==
  /\ pc = "aborted"
  /\ err = "IndivisibleChainCount"
  /\ stdout = <<>>
  /\ HasShortLine
====
